---- MODULE Spec2Model ----
(***************************************************************************)
(* Budget / transaction consistency of budget_tracker_be.                  *)
(*                                                                         *)
(* The state is the two tables (budget.models.Transaction and              *)
(* budget.models.Budget), the wall clock read by datetime.today(), and the *)
(* request/response pair of the last request served.                      *)
(*                                                                         *)
(* Decimal amounts are integers in thousandths (one digit more than the    *)
(* decimal_places=2 of the DecimalFields), so that a request can carry an  *)
(* amount with three fractional digits (which the serializer rejects) and  *)
(* round(x, 2) is a real computation.                                      *)
(***************************************************************************)
EXTENDS Integers, FiniteSets, Sequences, TLC

(* ---------------- bounds ---------------- *)
NumUsers == 2
MaxTxn == 2
MaxBudget == 2
MaxAdvance == 1
MaxRequests == 5
NumWorkers == 2
MaxStepRequests == 4
StartYear == 2024

(* ---------------- program constants ---------------- *)
MonthsPerYear == 12

HTTP_200_OK == 200
HTTP_201_CREATED == 201
HTTP_204_NO_CONTENT == 204
HTTP_400_BAD_REQUEST == 400
HTTP_404_NOT_FOUND == 404
HTTP_500_INTERNAL_SERVER_ERROR == 500

Users == 1..NumUsers
TxnIds == 1..MaxTxn
BudgetIds == 1..MaxBudget
Workers == 1..NumWorkers

\* thousandths per unit of the last stored decimal place
Quantum == 10

\* CategoryType.choices (one of the twelve members, and the default)
CategoryType == {"Food", "Other"}
CategoryDefault == "Other"

VARIABLES
    transactions,   \* Transaction table: id -> [user, amount, category, month, year]
    budgets,        \* Budget table: id -> [user, amount, spent_amount, month, year]
    nextTxnId,      \* AutoField sequence of Transaction
    nextBudgetId,   \* AutoField sequence of Budget
    clock,          \* months elapsed on the wall clock since the start
    last,           \* the last request served and its response
    quota,          \* number of requests still to be accepted
    pristine,       \* history: the budgets created while their owner had no
                    \* transaction dated in their period, and not edited since
    txnClocks,      \* history: per user, the clock values at which a transaction
                    \* create, update or delete of that user was processed
    requests        \* per worker, the request it is in the middle of (StepSpec)

vars == <<transactions, budgets, nextTxnId, nextBudgetId, clock, last, quota,
          pristine, txnClocks, requests>>

(* ---------------- wall clock: datetime.today() ---------------- *)
StartMonth == MonthsPerYear
MonthOf(c) == ((StartMonth - 1 + c) % MonthsPerYear) + 1
YearOf(c) == StartYear + ((StartMonth - 1 + c) \div MonthsPerYear)
current_month == MonthOf(clock)
current_year == YearOf(clock)

\* the periods requests may name: those the clock can reach
Periods == {[month |-> MonthOf(c), year |-> YearOf(c)] : c \in 0..MaxAdvance}

(* ---------------- decimals ---------------- *)
\* DecimalField(decimal_places=2) validation: at most two fractional digits
HasTwoPlaces(x) == x % Quantum = 0

\* round(Decimal, 2): round-half-even to two fractional digits
round2(x) ==
    LET r == x % Quantum
        lo == x - r
    IN  IF r * 2 < Quantum THEN lo
        ELSE IF r * 2 > Quantum THEN lo + Quantum
        ELSE IF (lo \div Quantum) % 2 = 0 THEN lo ELSE lo + Quantum

(* ---------------- request payloads ---------------- *)
EmptyData == [f \in {} |-> 0]

\* amounts a transaction request may carry; the last has three fractional digits
TxnAmountInputs == {120500, 200000, 120505}
\* categories a request may carry; "Bogus" is not a member of CategoryType
CategoryInputs == {"Food", "Bogus"}
\* amounts a budget request may carry; the last has three fractional digits
BudgetAmountInputs == {500000, 500005}

\* request.data of a transaction request: amount, category, both or neither
TxnData ==
    {[amount |-> a, category |-> c] :
        a \in TxnAmountInputs, c \in CategoryInputs \cap CategoryType}
    \cup {[amount |-> a] : a \in TxnAmountInputs}
    \cup {[category |-> c] : c \in CategoryInputs}
    \cup {EmptyData}

\* request.data of BudgetView.post: month and year, with or without amount
\* (the amounts have two fractional digits)
BudgetPostData ==
    {[month |-> p.month, year |-> p.year, amount |-> a] :
        p \in Periods, a \in {x \in BudgetAmountInputs : HasTwoPlaces(x)}}
    \cup Periods

\* values of a spent_amount key that a budget request may carry
SpentAmountInputs == {999990}

\* request.data of BudgetView.put: one of user and amount, or month with year,
\* or amount with month and year, or a spent_amount key alone or with month
\* and year, or nothing
BudgetPutData ==
    {[user |-> u] : u \in Users}
    \cup {[amount |-> a] : a \in BudgetAmountInputs}
    \cup Periods
    \cup {[amount |-> a, month |-> p.month, year |-> p.year] :
            a \in BudgetAmountInputs, p \in Periods}
    \cup {[spent_amount |-> x] : x \in SpentAmountInputs}
    \cup {[spent_amount |-> x, month |-> p.month, year |-> p.year] :
            x \in SpentAmountInputs, p \in Periods}
    \cup {EmptyData}

(* ---------------- serializers ---------------- *)
\* TransactionSerializer(data=..., partial=...).is_valid()
TransactionSerializer_is_valid(data, partial) ==
    /\ IF "amount" \in DOMAIN data THEN HasTwoPlaces(data.amount) ELSE partial
    /\ "category" \in DOMAIN data => data.category \in CategoryType

\* BudgetSerializer(budget, data=..., partial=True).is_valid()
BudgetSerializer_is_valid(data) ==
    "amount" \in DOMAIN data => HasTwoPlaces(data.amount)

(* ---------------- queries ---------------- *)
\* mutation of TransactionRows: the filter on the owner is missing
TransactionRows_any_user(user, transaction_id) ==
    {t \in DOMAIN transactions : t = transaction_id}

\* Transaction.objects.filter(id=transaction_id, user=request.user)
TransactionRows(user, transaction_id) ==
    {t \in DOMAIN transactions : t = transaction_id /\ transactions[t].user = user}

\* mutation of BudgetRows: the filter on the owner is missing
BudgetRows_any_user(user, month, year) ==
    {b \in DOMAIN budgets :
        /\ budgets[b].month = month
        /\ budgets[b].year = year}

\* Budget.objects.filter(user=request.user, month=..., year=...)
BudgetRows(user, month, year) ==
    {b \in DOMAIN budgets :
        /\ budgets[b].user = user
        /\ budgets[b].month = month
        /\ budgets[b].year = year}

\* mutation of existing_budget: the pre-check also compares the amount
existing_budget_same_amount(user, data) ==
    {b \in BudgetRows(user, data.month, data.year) :
        "amount" \in DOMAIN data /\ budgets[b].amount = data.amount}

\* Budget.objects.filter(user=request.user, month=month, year=year).first()
existing_budget(user, data) ==
    BudgetRows(user, data.month, data.year)

\* mutation of BudgetById: the filter on the owner is missing
BudgetById_any_user(user, budget_id) ==
    {b \in DOMAIN budgets : b = budget_id}

\* Budget.objects.filter(id=budget_id, user=request.user)
BudgetById(user, budget_id) ==
    {b \in DOMAIN budgets : b = budget_id /\ budgets[b].user = user}

\* a table with row id set to rec (Model.save()) or removed (Model.delete())
Save(table, id, rec) ==
    [i \in DOMAIN table \cup {id} |-> IF i = id THEN rec ELSE table[i]]
Delete(table, id) ==
    [i \in DOMAIN table \ {id} |-> table[i]]

\* the body of the responses that report the budget
Snapshot(budget) ==
    [spent_amount |-> round2(budget.spent_amount),
     remaining_budget |-> round2(budget.amount - budget.spent_amount)]

NoBudget == [detail |-> "No budget found for the current month."]
TxnNotFound == [detail |-> "Transaction not found."]
BudgetNotFound == [detail |-> "Budget not found."]
BudgetExists == [detail |-> "Budget already exists for this month/year."]
Unhandled == [detail |-> "Server Error (500)"]

\* what is kept of a request and its response: the view method, the HTTP
\* status and the body
Response(op, status, body) ==
    [op |-> op, status |-> status, body |-> body]

\* the locals of a worker that serves nothing
NoTransaction == [user |-> 0, amount |-> 0, category |-> "", month |-> 0, year |-> 0]
NoBudgetRow == [user |-> 0, amount |-> 0, spent_amount |-> 0, month |-> 0, year |-> 0]
Idle ==
    [op |-> "idle", step |-> "idle", user |-> 0, id |-> 0,
     transaction |-> NoTransaction,
     budget_id |-> 0, loaded |-> NoBudgetRow, budget |-> NoBudgetRow,
     saved |-> FALSE]

(* ---------------- initial state ---------------- *)
Init ==
    /\ transactions = EmptyData
    /\ budgets = EmptyData
    /\ nextTxnId = 1
    /\ nextBudgetId = 1
    /\ clock = 0
    /\ last = Response("none", 0, EmptyData)
    /\ quota = MaxRequests
    /\ pristine = {}
    /\ txnClocks = [u \in Users |-> {}]
    /\ requests = [p \in Workers |-> Idle]

(* ---------------- budget-sync arithmetic ---------------- *)
\* mutation of AddSpent: the new amount overwrites the running total
AddSpent_overwrite(budget, amount) ==
    [budget EXCEPT !.spent_amount = amount]

\* budget.spent_amount += amount
AddSpent(budget, amount) ==
    [budget EXCEPT !.spent_amount = @ + amount]

\* budget.spent_amount -= amount
SubSpent(budget, amount) ==
    [budget EXCEPT !.spent_amount = @ - amount]

\* serializer.save(user=request.user) of a new transaction, dated today
NewTransaction(user, data) ==
    [user |-> user,
     amount |-> data.amount,
     category |-> IF "category" \in DOMAIN data THEN data.category ELSE CategoryDefault,
     month |-> current_month,
     year |-> current_year]

\* serializer.save() of a partial update: the supplied fields replace the old ones
UpdatedTransaction(transaction, data) ==
    [transaction EXCEPT
        !.amount = IF "amount" \in DOMAIN data THEN data.amount ELSE @,
        !.category = IF "category" \in DOMAIN data THEN data.category ELSE @]

\* mutation of UpdatedBudget: spent_amount is a field of the serializer too
UpdatedBudget_with_spent_amount(budget, data) ==
    [budget EXCEPT
        !.user = IF "user" \in DOMAIN data THEN data.user ELSE @,
        !.amount = IF "amount" \in DOMAIN data THEN data.amount ELSE @,
        !.spent_amount = IF "spent_amount" \in DOMAIN data THEN data.spent_amount ELSE @,
        !.month = IF "month" \in DOMAIN data THEN data.month ELSE @,
        !.year = IF "year" \in DOMAIN data THEN data.year ELSE @]

\* serializer.save() of BudgetSerializer(budget, data=..., partial=True): the
\* fields of the serializer that data supplies replace the old ones; keys
\* that are no field of the serializer are ignored
UpdatedBudget(budget, data) ==
    [budget EXCEPT
        !.user = IF "user" \in DOMAIN data THEN data.user ELSE @,
        !.amount = IF "amount" \in DOMAIN data THEN data.amount ELSE @,
        !.month = IF "month" \in DOMAIN data THEN data.month ELSE @,
        !.year = IF "year" \in DOMAIN data THEN data.year ELSE @]

\* Budget.objects.create(user=, month=, year=, amount=): spent_amount defaults to 0.00
NewBudget(user, data) ==
    [user |-> user, amount |-> data.amount, spent_amount |-> 0,
     month |-> data.month, year |-> data.year]

(* ---------------- request bookkeeping ---------------- *)
\* one more request is accepted and served whole, between two others
Served ==
    /\ quota > 0
    /\ quota' = quota - 1
    /\ requests' = requests

\* history: a transaction write of user was processed now
TxnWritten(user) ==
    /\ txnClocks' = [txnClocks EXCEPT ![user] = @ \cup {clock}]
    /\ pristine' = pristine

(* ---------------- TransactionView ---------------- *)
TransactionView_post(user, data) ==
    /\ Served
    /\ IF ~TransactionSerializer_is_valid(data, FALSE)
       THEN /\ last' = Response("TransactionView.post",
                                HTTP_400_BAD_REQUEST, EmptyData)
            /\ UNCHANGED <<transactions, budgets, nextTxnId, nextBudgetId, clock,
                           pristine, txnClocks>>
       ELSE /\ nextTxnId <= MaxTxn
            /\ TxnWritten(user)
            /\ LET transaction == NewTransaction(user, data)
                   rows == BudgetRows(user, current_month, current_year)
               IN  /\ transactions' = Save(transactions, nextTxnId, transaction)
                   /\ nextTxnId' = nextTxnId + 1
                   /\ UNCHANGED <<nextBudgetId, clock>>
                   /\ CASE rows = {} ->
                             /\ budgets' = budgets
                             /\ last' = Response("TransactionView.post",
                                                 HTTP_404_NOT_FOUND, NoBudget)
                        [] Cardinality(rows) > 1 ->
                             \* MultipleObjectsReturned is not caught: the row stays
                             /\ budgets' = budgets
                             /\ last' = Response("TransactionView.post",
                                                 HTTP_500_INTERNAL_SERVER_ERROR, Unhandled)
                        [] OTHER ->
                             LET b == CHOOSE x \in rows : TRUE
                                 budget == AddSpent(budgets[b], transaction.amount)
                             IN  /\ budgets' = Save(budgets, b, budget)
                                 /\ last' = Response("TransactionView.post",
                                                     HTTP_201_CREATED, Snapshot(budget))

\* mutation of put_sync: the budget is saved whether or not the data is valid
put_sync_save_always(transaction, budget, data) ==
    LET rolled == SubSpent(budget, transaction.amount)
    IN  IF TransactionSerializer_is_valid(data, TRUE)
        THEN LET updated_transaction == UpdatedTransaction(transaction, data)
             IN  [saved |-> TRUE,
                  transaction |-> updated_transaction,
                  budget |-> AddSpent(rolled, updated_transaction.amount)]
        ELSE [saved |-> TRUE, transaction |-> transaction, budget |-> rolled]

\* the body of put once both rows are loaded: roll the old amount back in
\* memory, validate, and only when valid save the transaction and the budget
put_sync(transaction, budget, data) ==
    LET rolled == SubSpent(budget, transaction.amount)
    IN  IF TransactionSerializer_is_valid(data, TRUE)
        THEN LET updated_transaction == UpdatedTransaction(transaction, data)
             IN  [saved |-> TRUE,
                  transaction |-> updated_transaction,
                  budget |-> AddSpent(rolled, updated_transaction.amount)]
        ELSE [saved |-> FALSE, transaction |-> transaction, budget |-> rolled]

TransactionView_put(user, transaction_id, data) ==
    LET found == TransactionRows(user, transaction_id)
        rows == BudgetRows(user, current_month, current_year)
        Fail(status, body) ==
            /\ last' = Response("TransactionView.put",
                                status, body)
            /\ UNCHANGED <<transactions, budgets, pristine, txnClocks>>
    IN  /\ Served
        /\ UNCHANGED <<nextTxnId, nextBudgetId, clock>>
        /\ CASE found = {} -> Fail(HTTP_404_NOT_FOUND, TxnNotFound)
             [] found # {} /\ rows = {} -> Fail(HTTP_404_NOT_FOUND, NoBudget)
             [] found # {} /\ Cardinality(rows) > 1 ->
                  \* MultipleObjectsReturned is not caught
                  Fail(HTTP_500_INTERNAL_SERVER_ERROR, Unhandled)
             [] OTHER ->
                  LET b == CHOOSE x \in rows : TRUE
                      out == put_sync(transactions[transaction_id], budgets[b], data)
                  IN  IF out.saved
                      THEN /\ transactions' =
                                  Save(transactions, transaction_id, out.transaction)
                           /\ budgets' = Save(budgets, b, out.budget)
                           /\ TxnWritten(user)
                           /\ last' = Response("TransactionView.put",
                                               HTTP_200_OK, Snapshot(out.budget))
                      ELSE /\ last' = Response("TransactionView.put",
                                               HTTP_400_BAD_REQUEST, EmptyData)
                           /\ UNCHANGED <<transactions, budgets, pristine, txnClocks>>

TransactionView_delete(user, transaction_id) ==
    LET found == TransactionRows(user, transaction_id)
        rows == BudgetRows(user, current_month, current_year)
        Fail(status, body) ==
            /\ last' = Response("TransactionView.delete",
                                status, body)
            /\ UNCHANGED <<transactions, budgets, pristine, txnClocks>>
    IN  /\ Served
        /\ UNCHANGED <<nextTxnId, nextBudgetId, clock>>
        /\ CASE found = {} -> Fail(HTTP_404_NOT_FOUND, TxnNotFound)
             [] found # {} /\ rows = {} -> Fail(HTTP_404_NOT_FOUND, NoBudget)
             [] found # {} /\ Cardinality(rows) > 1 ->
                  Fail(HTTP_500_INTERNAL_SERVER_ERROR, Unhandled)
             [] OTHER ->
                  LET transaction == transactions[transaction_id]
                      b == CHOOSE x \in rows : TRUE
                      budget == SubSpent(budgets[b], transaction.amount)
                  IN  /\ budgets' = Save(budgets, b, budget)
                      /\ transactions' = Delete(transactions, transaction_id)
                      /\ TxnWritten(user)
                      /\ last' = Response("TransactionView.delete",
                                          HTTP_204_NO_CONTENT, Snapshot(budget))

(* ---------------- BudgetView ---------------- *)
BudgetView_post(user, data) ==
    LET existing == existing_budget(user, data)
    IN  /\ Served
        /\ UNCHANGED <<transactions, nextTxnId, clock, txnClocks>>
        /\ CASE existing # {} ->
                  /\ last' = Response("BudgetView.post",
                                      HTTP_400_BAD_REQUEST, BudgetExists)
                  /\ UNCHANGED <<budgets, nextBudgetId, pristine>>
             [] existing = {} /\ "amount" \notin DOMAIN data ->
                  \* amount=None violates NOT NULL: IntegrityError, not caught
                  /\ last' = Response("BudgetView.post",
                                      HTTP_500_INTERNAL_SERVER_ERROR, Unhandled)
                  /\ UNCHANGED <<budgets, nextBudgetId, pristine>>
             [] OTHER ->
                  /\ nextBudgetId <= MaxBudget
                  /\ budgets' = Save(budgets, nextBudgetId, NewBudget(user, data))
                  /\ nextBudgetId' = nextBudgetId + 1
                  /\ pristine' =
                        IF \E t \in DOMAIN transactions :
                              /\ transactions[t].user = user
                              /\ transactions[t].month = data.month
                              /\ transactions[t].year = data.year
                        THEN pristine
                        ELSE pristine \cup {nextBudgetId}
                  /\ last' = Response("BudgetView.post",
                                      HTTP_201_CREATED, EmptyData)

BudgetView_put(user, budget_id, data) ==
    /\ Served
    /\ UNCHANGED <<transactions, nextTxnId, nextBudgetId, clock, txnClocks>>
    /\ CASE BudgetById(user, budget_id) = {} ->
              /\ last' = Response("BudgetView.put",
                                  HTTP_404_NOT_FOUND, BudgetNotFound)
              /\ UNCHANGED <<budgets, pristine>>
         [] BudgetById(user, budget_id) # {} /\ ~BudgetSerializer_is_valid(data) ->
              /\ last' = Response("BudgetView.put",
                                  HTTP_400_BAD_REQUEST, EmptyData)
              /\ UNCHANGED <<budgets, pristine>>
         [] OTHER ->
              /\ budgets' = Save(budgets, budget_id, UpdatedBudget(budgets[budget_id], data))
              /\ last' = Response("BudgetView.put", HTTP_200_OK, EmptyData)
              /\ pristine' = pristine \ {budget_id}

BudgetView_delete(user, budget_id) ==
    /\ Served
    /\ UNCHANGED <<transactions, nextTxnId, nextBudgetId, clock, txnClocks>>
    /\ IF BudgetById(user, budget_id) = {}
       THEN /\ last' = Response("BudgetView.delete",
                                HTTP_404_NOT_FOUND, BudgetNotFound)
            /\ UNCHANGED <<budgets, pristine>>
       ELSE /\ budgets' = Delete(budgets, budget_id)
            /\ last' = Response("BudgetView.delete",
                                HTTP_204_NO_CONTENT, EmptyData)
            /\ pristine' = pristine \ {budget_id}

(* ---------------- the wall clock ---------------- *)
\* a month passes between two requests
Tick ==
    /\ clock < MaxAdvance
    /\ clock' = clock + 1
    /\ UNCHANGED <<transactions, budgets, nextTxnId, nextBudgetId, last, quota,
                   pristine, txnClocks, requests>>

Next ==
    \/ \E user \in Users, data \in TxnData : TransactionView_post(user, data)
    \/ \E user \in Users, id \in TxnIds, data \in TxnData :
            TransactionView_put(user, id, data)
    \/ \E user \in Users, id \in TxnIds : TransactionView_delete(user, id)
    \/ \E user \in Users, data \in BudgetPostData : BudgetView_post(user, data)
    \/ \E user \in Users, id \in BudgetIds, data \in BudgetPutData :
            BudgetView_put(user, id, data)
    \/ \E user \in Users, id \in BudgetIds : BudgetView_delete(user, id)
    \/ Tick

Spec == Init /\ [][Next]_vars

(* ======================================================================= *)
(* StepSpec: TransactionView.post and .delete one statement at a time      *)
(*                                                                         *)
(* Each worker serves one request at a time; the statements of two         *)
(* requests in flight interleave, and budget requests and the clock run    *)
(* between them. No transaction.atomic() and no select_for_update() wraps  *)
(* the handlers, so every query is its own database transaction.           *)
(* ======================================================================= *)
\* the payloads of the creates in flight: an amount, valid or not
StepTxnData == {[amount |-> a] : a \in TxnAmountInputs}

\* mutation of delete_order: the row is deleted before the budget is saved
delete_order_delete_first ==
    <<"get_transaction", "get_budget", "delete_transaction", "save_budget">>

\* the statements of TransactionView.delete that touch the database, in
\* program order
delete_order ==
    <<"get_transaction", "get_budget", "save_budget", "delete_transaction">>

\* the statements of TransactionView.post that touch the database
post_order ==
    <<"save_transaction", "get_budget", "save_budget">>

\* the statement after step in order, "respond" after the last
After(order, step) ==
    LET i == CHOOSE k \in 1..Len(order) : order[k] = step
    IN  IF i = Len(order) THEN "respond" ELSE order[i + 1]

\* a request goes to the first free worker (the workers are interchangeable)
Free(p) ==
    /\ requests[p] = Idle
    /\ \A q \in Workers : q < p => requests[q] # Idle

\* worker p answers and is free again
Respond(p, op, status, body) ==
    /\ requests' = [requests EXCEPT ![p] = Idle]
    /\ last' = Response(op, status, body)

\* worker p goes on to the statement after its current one with locals r, or
\* answers with the budget snapshot when that was the last
Continue(p, r, order, op, status) ==
    IF After(order, requests[p].step) = "respond"
    THEN Respond(p, op, status, Snapshot(r.budget))
    ELSE /\ requests' =
                [requests EXCEPT ![p] = [r EXCEPT !.step = After(order, requests[p].step)]]
         /\ last' = last

\* serializer.is_valid() and serializer.save(user=request.user)
post_save_transaction(p, user, data) ==
    /\ Free(p)
    /\ quota > 0
    /\ quota' = quota - 1
    /\ UNCHANGED <<budgets, nextBudgetId, clock, pristine>>
    /\ IF ~TransactionSerializer_is_valid(data, FALSE)
       THEN /\ Respond(p, "TransactionView.post", HTTP_400_BAD_REQUEST, EmptyData)
            /\ UNCHANGED <<transactions, nextTxnId, txnClocks>>
       ELSE /\ nextTxnId <= MaxTxn
            /\ transactions' = Save(transactions, nextTxnId, NewTransaction(user, data))
            /\ nextTxnId' = nextTxnId + 1
            /\ txnClocks' = [txnClocks EXCEPT ![user] = @ \cup {clock}]
            /\ last' = last
            /\ requests' = [requests EXCEPT ![p] =
                    [Idle EXCEPT !.op = "post",
                                 !.step = After(post_order, "save_transaction"),
                                 !.user = user,
                                 !.id = nextTxnId,
                                 !.transaction = NewTransaction(user, data)]]

\* today = datetime.today(); budget = Budget.objects.get(...)
post_get_budget(p) ==
    /\ requests[p].op = "post"
    /\ requests[p].step = "get_budget"
    /\ UNCHANGED <<transactions, budgets, nextTxnId, nextBudgetId, clock, quota,
                   pristine, txnClocks>>
    /\ LET rows == BudgetRows(requests[p].user, current_month, current_year)
       IN  CASE rows = {} ->
                  Respond(p, "TransactionView.post", HTTP_404_NOT_FOUND, NoBudget)
             [] Cardinality(rows) > 1 ->
                  Respond(p, "TransactionView.post",
                          HTTP_500_INTERNAL_SERVER_ERROR, Unhandled)
             [] OTHER ->
                  LET b == CHOOSE x \in rows : TRUE
                  IN  Continue(p, [requests[p] EXCEPT !.budget_id = b,
                                                      !.loaded = budgets[b],
                                                      !.budget = budgets[b]],
                               post_order, "TransactionView.post", HTTP_201_CREATED)

\* mutation of post_save_budget: the amount is added to the row as it is
\* stored now, not to the row as it was loaded
post_save_budget_reread(p) ==
    /\ requests[p].op = "post"
    /\ requests[p].step = "save_budget"
    /\ UNCHANGED <<transactions, nextTxnId, nextBudgetId, clock, quota,
                   pristine, txnClocks>>
    /\ LET stored == IF requests[p].budget_id \in DOMAIN budgets
                     THEN budgets[requests[p].budget_id] ELSE requests[p].budget
           budget == AddSpent(stored, requests[p].transaction.amount)
       IN  /\ budgets' = Save(budgets, requests[p].budget_id, budget)
           /\ Continue(p, [requests[p] EXCEPT !.budget = budget, !.saved = TRUE],
                       post_order, "TransactionView.post", HTTP_201_CREATED)

\* budget.spent_amount += transaction.amount; budget.save()
post_save_budget(p) ==
    /\ requests[p].op = "post"
    /\ requests[p].step = "save_budget"
    /\ UNCHANGED <<transactions, nextTxnId, nextBudgetId, clock, quota,
                   pristine, txnClocks>>
    /\ LET budget == AddSpent(requests[p].budget, requests[p].transaction.amount)
       IN  /\ budgets' = Save(budgets, requests[p].budget_id, budget)
           /\ Continue(p, [requests[p] EXCEPT !.budget = budget, !.saved = TRUE],
                       post_order, "TransactionView.post", HTTP_201_CREATED)

\* transaction = Transaction.objects.get(id=transaction_id, user=request.user)
delete_get_transaction(p, user, transaction_id) ==
    /\ Free(p)
    /\ quota > 0
    /\ quota' = quota - 1
    /\ UNCHANGED <<transactions, budgets, nextTxnId, nextBudgetId, clock,
                   pristine, txnClocks>>
    /\ IF TransactionRows(user, transaction_id) = {}
       THEN Respond(p, "TransactionView.delete", HTTP_404_NOT_FOUND, TxnNotFound)
       ELSE /\ last' = last
            /\ requests' = [requests EXCEPT ![p] =
                    [Idle EXCEPT !.op = "delete",
                                 !.step = After(delete_order, "get_transaction"),
                                 !.user = user,
                                 !.id = transaction_id,
                                 !.transaction = transactions[transaction_id]]]

\* today = datetime.today(); budget = Budget.objects.get(...)
delete_get_budget(p) ==
    /\ requests[p].op = "delete"
    /\ requests[p].step = "get_budget"
    /\ UNCHANGED <<transactions, budgets, nextTxnId, nextBudgetId, clock, quota,
                   pristine, txnClocks>>
    /\ LET rows == BudgetRows(requests[p].user, current_month, current_year)
       IN  CASE rows = {} ->
                  Respond(p, "TransactionView.delete", HTTP_404_NOT_FOUND, NoBudget)
             [] Cardinality(rows) > 1 ->
                  Respond(p, "TransactionView.delete",
                          HTTP_500_INTERNAL_SERVER_ERROR, Unhandled)
             [] OTHER ->
                  LET b == CHOOSE x \in rows : TRUE
                  IN  Continue(p, [requests[p] EXCEPT !.budget_id = b,
                                                      !.loaded = budgets[b],
                                                      !.budget = budgets[b]],
                               delete_order, "TransactionView.delete",
                               HTTP_204_NO_CONTENT)

\* budget.spent_amount -= transaction.amount; budget.save()
delete_save_budget(p) ==
    /\ requests[p].op = "delete"
    /\ requests[p].step = "save_budget"
    /\ UNCHANGED <<transactions, nextTxnId, nextBudgetId, clock, quota,
                   pristine, txnClocks>>
    /\ LET budget == SubSpent(requests[p].budget, requests[p].transaction.amount)
       IN  /\ budgets' = Save(budgets, requests[p].budget_id, budget)
           /\ Continue(p, [requests[p] EXCEPT !.budget = budget, !.saved = TRUE],
                       delete_order, "TransactionView.delete", HTTP_204_NO_CONTENT)

\* transaction.delete()
delete_transaction(p) ==
    /\ requests[p].op = "delete"
    /\ requests[p].step = "delete_transaction"
    /\ UNCHANGED <<budgets, nextTxnId, nextBudgetId, clock, quota, pristine>>
    /\ transactions' = Delete(transactions, requests[p].id)
    /\ txnClocks' = [txnClocks EXCEPT ![requests[p].user] = @ \cup {clock}]
    /\ Continue(p, requests[p], delete_order, "TransactionView.delete",
                HTTP_204_NO_CONTENT)

StepNext ==
    \/ \E p \in Workers, user \in Users, data \in StepTxnData :
            post_save_transaction(p, user, data)
    \/ \E p \in Workers : post_get_budget(p)
    \/ \E p \in Workers : post_save_budget(p)
    \/ \E p \in Workers, user \in Users, id \in TxnIds :
            delete_get_transaction(p, user, id)
    \/ \E p \in Workers : delete_get_budget(p)
    \/ \E p \in Workers : delete_save_budget(p)
    \/ \E p \in Workers : delete_transaction(p)
    \/ \E user \in Users, data \in BudgetPostData : BudgetView_post(user, data)
    \/ \E user \in Users, id \in BudgetIds, data \in Periods :
            BudgetView_put(user, id, data)
    \/ \E user \in Users, id \in BudgetIds : BudgetView_delete(user, id)
    \/ Tick

\* the state after construction, with the quota of StepSpec
StepInit ==
    /\ transactions = EmptyData
    /\ budgets = EmptyData
    /\ nextTxnId = 1
    /\ nextBudgetId = 1
    /\ clock = 0
    /\ last = Response("none", 0, EmptyData)
    /\ quota = MaxStepRequests
    /\ pristine = {}
    /\ txnClocks = [u \in Users |-> {}]
    /\ requests = [p \in Workers |-> Idle]

StepSpec == StepInit /\ [][StepNext]_vars

(* ======================================================================= *)
(* ReadSpec: the read views next to the writes                             *)
(*                                                                         *)
(* TransactionView.get, BudgetSummaryView.get, SpendingByCategoryView.get  *)
(* and TotalExpensesOverTimeAPIView.get are served whole, like the writes  *)
(* of Spec, and answer from the tables as the writes left them.            *)
(* ======================================================================= *)
MaxReadRequests == 4

\* the integers a query string may spell: the months and years of Periods
IntLiterals == {p.month : p \in Periods} \cup {p.year : p \in Periods}

\* int(s): the integers spelled by s; none when int() raises ValueError
int(s) == {n \in IntLiterals : ToString(n) = s}

\* request.query_params of the budget summary: month and year as text, the
\* month alone, nothing, or a month that is no integer
SummaryParams ==
    {[month |-> ToString(p.month), year |-> ToString(p.year)] : p \in Periods}
    \cup {[month |-> ToString(p.month)] : p \in Periods}
    \cup {EmptyData}
    \cup {[month |-> "abc"]}

\* a body that is a JSON array: its entries, kept in the field list so that
\* every body is a record
List(entries) == [list |-> entries]

NotIntegers == [detail |-> "Month and year must be integers."]
NoSpending == [detail |-> "No spending data available."]

\* TransactionSerializer(transaction).data; the date is kept as month and year
TransactionSerializer_data(id) ==
    [id |-> id, amount |-> transactions[id].amount,
     category |-> transactions[id].category,
     month |-> transactions[id].month, year |-> transactions[id].year]

\* mutation of TransactionsOf: the filter on the owner is missing
TransactionsOf_any_user(user) == DOMAIN transactions

\* Transaction.objects.filter(user=request.user)
TransactionsOf(user) == {t \in DOMAIN transactions : transactions[t].user = user}

\* the sum of the amounts of the rows ids of the transaction table
RECURSIVE Sum(_)
Sum(ids) ==
    IF ids = {} THEN 0
    ELSE LET t == CHOOSE x \in ids : TRUE
         IN  transactions[t].amount + Sum(ids \ {t})

\* TransactionView.get; transaction_id 0 stands for the list URL (no id)
TransactionView_get(user, transaction_id) ==
    /\ Served
    /\ UNCHANGED <<transactions, budgets, nextTxnId, nextBudgetId, clock,
                   pristine, txnClocks>>
    /\ IF transaction_id # 0
       THEN IF TransactionRows(user, transaction_id) = {}
            THEN last' = Response("TransactionView.get",
                                  HTTP_404_NOT_FOUND, TxnNotFound)
            ELSE last' = Response("TransactionView.get", HTTP_200_OK,
                                  TransactionSerializer_data(transaction_id))
       ELSE last' = Response("TransactionView.get", HTTP_200_OK,
                             List({TransactionSerializer_data(t) : t \in TransactionsOf(user)}))

\* the period the summary is asked for: the query parameters, today's month
\* and year where one is absent; none when int() fails
SummaryPeriod(params) ==
    LET months == IF "month" \in DOMAIN params THEN int(params.month)
                  ELSE {current_month}
        years == IF "year" \in DOMAIN params THEN int(params.year)
                 ELSE {current_year}
    IN  {[month |-> m, year |-> y] : m \in months, y \in years}

\* the body of the summary of a budget
Summary(period, budget) ==
    [month |-> period.month, year |-> period.year,
     budget_amount |-> round2(budget.amount),
     spent_amount |-> round2(budget.spent_amount),
     remaining_amount |-> round2(budget.amount - budget.spent_amount)]

\* the body of the summary when Budget.DoesNotExist
ZeroSummary(period) ==
    [month |-> period.month, year |-> period.year,
     budget_amount |-> 0, spent_amount |-> 0, remaining_amount |-> 0]

BudgetSummaryView_get(user, params) ==
    /\ Served
    /\ UNCHANGED <<transactions, budgets, nextTxnId, nextBudgetId, clock,
                   pristine, txnClocks>>
    /\ IF SummaryPeriod(params) = {}
       THEN last' = Response("BudgetSummaryView.get",
                             HTTP_400_BAD_REQUEST, NotIntegers)
       ELSE LET period == CHOOSE x \in SummaryPeriod(params) : TRUE
                rows == BudgetRows(user, period.month, period.year)
            IN  CASE rows = {} ->
                       last' = Response("BudgetSummaryView.get",
                                        HTTP_200_OK, ZeroSummary(period))
                  [] Cardinality(rows) > 1 ->
                       \* MultipleObjectsReturned is not caught
                       last' = Response("BudgetSummaryView.get",
                                        HTTP_500_INTERNAL_SERVER_ERROR, Unhandled)
                  [] OTHER ->
                       last' = Response("BudgetSummaryView.get", HTTP_200_OK,
                                        Summary(period, budgets[CHOOSE b \in rows : TRUE]))

\* category_spending: the categories of the rows, each with its running total
category_spending(ids) ==
    [c \in {transactions[t].category : t \in ids} |->
        Sum({t \in ids : transactions[t].category = c})]

SpendingByCategoryView_get(user) ==
    /\ Served
    /\ UNCHANGED <<transactions, budgets, nextTxnId, nextBudgetId, clock,
                   pristine, txnClocks>>
    /\ IF TransactionsOf(user) = {}
       THEN last' = Response("SpendingByCategoryView.get", HTTP_200_OK, NoSpending)
       ELSE LET spending == category_spending(TransactionsOf(user))
            IN  last' = Response("SpendingByCategoryView.get", HTTP_200_OK,
                                 List({[category |-> k, amount |-> round2(spending[k])] :
                                         k \in DOMAIN spending}))

\* mutation of TruncMonth: the date is truncated to its year
TruncMonth_to_year(t) == transactions[t].year * MonthsPerYear

\* TruncMonth('date') as a number that orders the months
TruncMonth(t) == transactions[t].year * MonthsPerYear + (transactions[t].month - 1)

\* expense["month"].strftime("%Y-%m")
strftime(month) ==
    LET y == month \div MonthsPerYear
        m == (month % MonthsPerYear) + 1
    IN  ToString(y) \o "-" \o (IF m < 10 THEN "0" ELSE "") \o ToString(m)

\* .order_by('month'): the months in increasing order
RECURSIVE order_by(_)
order_by(months) ==
    IF months = {} THEN <<>>
    ELSE LET lo == CHOOSE x \in months : \A y \in months : x <= y
         IN  <<lo>> \o order_by(months \ {lo})

\* the grouped and ordered queryset, formatted
expenses(user) ==
    LET ids == TransactionsOf(user)
        months == order_by({TruncMonth(t) : t \in ids})
    IN  [i \in 1..Len(months) |->
            [month |-> strftime(months[i]),
             total_spent |-> Sum({t \in ids : TruncMonth(t) = months[i]})]]

TotalExpensesOverTimeAPIView_get(user) ==
    /\ Served
    /\ UNCHANGED <<transactions, budgets, nextTxnId, nextBudgetId, clock,
                   pristine, txnClocks>>
    /\ last' = Response("TotalExpensesOverTimeAPIView.get", HTTP_200_OK,
                        List(expenses(user)))

\* the payloads of the writes of ReadSpec: valid ones
ReadTxnData ==
    {[amount |-> a, category |-> c] :
        a \in {x \in TxnAmountInputs : HasTwoPlaces(x)},
        c \in CategoryInputs \cap CategoryType}
    \cup {[amount |-> a] : a \in {x \in TxnAmountInputs : HasTwoPlaces(x)}}

ReadNext ==
    \/ \E user \in Users, id \in {0} \cup TxnIds : TransactionView_get(user, id)
    \/ \E user \in Users, params \in SummaryParams : BudgetSummaryView_get(user, params)
    \/ \E user \in Users : SpendingByCategoryView_get(user)
    \/ \E user \in Users : TotalExpensesOverTimeAPIView_get(user)
    \/ \E user \in Users, data \in ReadTxnData : TransactionView_post(user, data)
    \/ \E user \in Users, id \in TxnIds, data \in ReadTxnData :
            TransactionView_put(user, id, data)
    \/ \E user \in Users, id \in TxnIds : TransactionView_delete(user, id)
    \/ \E user \in Users, data \in BudgetPostData : BudgetView_post(user, data)
    \/ \E user \in Users, id \in BudgetIds, data \in Periods :
            BudgetView_put(user, id, data)
    \/ \E user \in Users, id \in BudgetIds : BudgetView_delete(user, id)
    \/ Tick

\* the state after construction, with the quota of ReadSpec
ReadInit ==
    /\ transactions = EmptyData
    /\ budgets = EmptyData
    /\ nextTxnId = 1
    /\ nextBudgetId = 1
    /\ clock = 0
    /\ last = Response("none", 0, EmptyData)
    /\ quota = MaxReadRequests
    /\ pristine = {}
    /\ txnClocks = [u \in Users |-> {}]
    /\ requests = [p \in Workers |-> Idle]

ReadSpec == ReadInit /\ [][ReadNext]_vars

(* ======================================================================= *)
(* Properties                                                              *)
(* ======================================================================= *)
\* the caller's budgets for the wall-clock period
CurrentBudgets(user) ==
    {b \in DOMAIN budgets :
        /\ budgets[b].user = user
        /\ budgets[b].month = MonthOf(clock)
        /\ budgets[b].year = YearOf(clock)}

\* the caller's stored transaction with this id, if any
OwnTransaction(user, id) ==
    {t \in DOMAIN transactions : t = id /\ transactions[t].user = user}

\* the amount a transaction carries after a partial update with data
NewAmount(transaction, data) ==
    IF "amount" \in DOMAIN data THEN data.amount ELSE transaction.amount

\* TransactionView.get: the list of a user, and the read of one id
TransactionList(table, user) == {t \in DOMAIN table : table[t].user = user}

(* C1: a valid transaction create, when exactly one budget exists for       *)
(* (caller, current month, current year), stores spent_amount = old spent + *)
(* the new amount, and answers 201 with spent_amount = that value and       *)
(* remaining_budget = budget amount - that value.                           *)
C1_CreateAddsAmount ==
    [][last'.op = "TransactionView.post" =>
       \A user \in Users, data \in TxnData :
        ( /\ TransactionSerializer_is_valid(data, FALSE)
          /\ Cardinality(CurrentBudgets(user)) = 1
          /\ TransactionView_post(user, data) )
        => \A b \in CurrentBudgets(user) :
              /\ b \in DOMAIN budgets'
              /\ budgets'[b].spent_amount = budgets[b].spent_amount + data.amount
              /\ last'.status = HTTP_201_CREATED
              /\ last'.body.spent_amount = budgets'[b].spent_amount
              /\ last'.body.remaining_budget =
                    budgets'[b].amount - budgets'[b].spent_amount
      ]_vars

\* a second create has answered 201: spent 120.50 + 200.00, remaining 179.50
C1_Witness ==
    /\ last.op = "TransactionView.post"
    /\ last.status = HTTP_201_CREATED
    /\ last.body.spent_amount = 320500
    /\ last.body.remaining_budget = 179500

(* C2: a valid transaction update, when the transaction belongs to the      *)
(* caller and a budget exists for (caller, current month, current year),    *)
(* stores spent_amount = old spent - old amount + new amount and stores the *)
(* transaction with the new amount (the old one when amount is not given).  *)
C2_UpdateAdjusts ==
    [][last'.op = "TransactionView.put" =>
       \A user \in Users, id \in TxnIds, data \in TxnData :
        ( /\ TransactionSerializer_is_valid(data, TRUE)
          /\ OwnTransaction(user, id) # {}
          /\ CurrentBudgets(user) # {}
          /\ TransactionView_put(user, id, data) )
        => /\ id \in DOMAIN transactions'
           /\ transactions'[id].amount = NewAmount(transactions[id], data)
           /\ \A b \in CurrentBudgets(user) :
                /\ b \in DOMAIN budgets'
                /\ budgets'[b].spent_amount =
                      budgets[b].spent_amount - transactions[id].amount
                          + NewAmount(transactions[id], data)
      ]_vars

\* C2 where the budget of the period is the only one: what the handler does
\* whenever Budget.objects.get returns a row
C2_UpdateAdjusts_OneBudget ==
    [][last'.op = "TransactionView.put" =>
       \A user \in Users, id \in TxnIds, data \in TxnData :
        ( /\ TransactionSerializer_is_valid(data, TRUE)
          /\ OwnTransaction(user, id) # {}
          /\ Cardinality(CurrentBudgets(user)) = 1
          /\ TransactionView_put(user, id, data) )
        => /\ id \in DOMAIN transactions'
           /\ transactions'[id].amount = NewAmount(transactions[id], data)
           /\ last'.status = HTTP_200_OK
           /\ \A b \in CurrentBudgets(user) :
                /\ b \in DOMAIN budgets'
                /\ budgets'[b].spent_amount =
                      budgets[b].spent_amount - transactions[id].amount
                          + NewAmount(transactions[id], data)
      ]_vars

(* C3: a transaction delete, when the transaction belongs to the caller and *)
(* a budget exists for (caller, current month, current year), stores        *)
(* spent_amount = old spent - the transaction's amount, and the transaction *)
(* is no longer read or listed.                                             *)
C3_DeleteSubtracts ==
    [][last'.op = "TransactionView.delete" =>
       \A user \in Users, id \in TxnIds :
        ( /\ OwnTransaction(user, id) # {}
          /\ CurrentBudgets(user) # {}
          /\ TransactionView_delete(user, id) )
        => /\ id \notin TransactionList(transactions', user)
           /\ \A b \in CurrentBudgets(user) :
                /\ b \in DOMAIN budgets'
                /\ budgets'[b].spent_amount =
                      budgets[b].spent_amount - transactions[id].amount
      ]_vars

\* C3 where the budget of the period is the only one
C3_DeleteSubtracts_OneBudget ==
    [][last'.op = "TransactionView.delete" =>
       \A user \in Users, id \in TxnIds :
        ( /\ OwnTransaction(user, id) # {}
          /\ Cardinality(CurrentBudgets(user)) = 1
          /\ TransactionView_delete(user, id) )
        => /\ id \notin TransactionList(transactions', user)
           /\ last'.status = HTTP_204_NO_CONTENT
           /\ \A b \in CurrentBudgets(user) :
                /\ b \in DOMAIN budgets'
                /\ budgets'[b].spent_amount =
                      budgets[b].spent_amount - transactions[id].amount
      ]_vars

(* C4: a transaction update that fails because the transaction does not     *)
(* exist for the caller, because no budget exists for the current period,   *)
(* or because the supplied fields are invalid, does not answer 200 and      *)
(* leaves every stored transaction and every stored budget as it was.       *)
(* Stated by contraposition: a step of TransactionView.put that answers 200 *)
(* or changes a stored row is the step of no request with such a failure.   *)
C4_FailedUpdatePersistsNothing ==
    [][( /\ last'.op = "TransactionView.put"
         /\ \/ last'.status = HTTP_200_OK
            \/ transactions' # transactions
            \/ budgets' # budgets )
       => \A user \in Users, id \in TxnIds, data \in TxnData :
            ( \/ OwnTransaction(user, id) = {}
              \/ CurrentBudgets(user) = {}
              \/ ~TransactionSerializer_is_valid(data, TRUE) )
            => ~TransactionView_put(user, id, data)
      ]_vars

\* an update was rejected as invalid (400) after its transaction and the
\* budget, which has spent something, were both loaded
C4_Witness ==
    /\ last.op = "TransactionView.put"
    /\ last.status = HTTP_400_BAD_REQUEST
    /\ \E b \in DOMAIN budgets : budgets[b].spent_amount > 0

(* C5: a valid transaction create when no budget exists for (caller,        *)
(* current month, current year) stores the transaction, answers 404 "No     *)
(* budget found", and changes no budget; and a stored transaction leaves    *)
(* the table only through a successful delete.                              *)
C5_CreateWithoutBudget ==
    [][/\ last'.op = "TransactionView.post" =>
          \A user \in Users, data \in TxnData :
            ( /\ TransactionSerializer_is_valid(data, FALSE)
              /\ CurrentBudgets(user) = {}
              /\ TransactionView_post(user, data) )
            => /\ last'.status = HTTP_404_NOT_FOUND
               /\ last'.body = NoBudget
               /\ \E t \in TransactionList(transactions', user) \ DOMAIN transactions :
                     /\ transactions'[t].amount = data.amount
                     /\ transactions'[t].month = MonthOf(clock)
                     /\ transactions'[t].year = YearOf(clock)
               /\ budgets' = budgets
       /\ \A t \in DOMAIN transactions :
            t \notin DOMAIN transactions' =>
                /\ last'.op = "TransactionView.delete"
                /\ last'.status = HTTP_204_NO_CONTENT
      ]_vars

\* a create has answered 404 "No budget found" and its transaction is stored
C5_Witness ==
    /\ last.op = "TransactionView.post"
    /\ last.status = HTTP_404_NOT_FOUND
    /\ last.body = NoBudget
    /\ \E t \in DOMAIN transactions : CurrentBudgets(transactions[t].user) = {}

(* C6: a delete request removes the transaction only after it has saved the *)
(* current-period budget with spent_amount reduced by the transaction's     *)
(* amount; when no budget exists for (caller, current month, current year)  *)
(* it answers 404 "No budget found" and removes nothing. Checked statement  *)
(* by statement, with other requests in between.                            *)
C6_DeleteAdjustsFirst ==
    [][/\ \A t \in DOMAIN transactions :
            t \notin DOMAIN transactions' =>
                \E p \in Workers :
                    /\ requests[p].op = "delete"
                    /\ requests[p].id = t
                    /\ requests[p].saved
                    /\ requests[p].budget.spent_amount =
                          requests[p].loaded.spent_amount
                              - requests[p].transaction.amount
       /\ \A p \in Workers :
            ( /\ requests[p].op = "delete"
              /\ requests[p].step = "save_budget"
              /\ requests'[p] # requests[p] )
            => /\ requests[p].budget_id \in DOMAIN budgets'
               /\ budgets'[requests[p].budget_id].spent_amount =
                     requests[p].loaded.spent_amount - requests[p].transaction.amount
       /\ \A p \in Workers :
            ( /\ requests[p].op = "delete"
              /\ requests[p].step = "get_budget"
              /\ requests'[p] # requests[p]
              /\ CurrentBudgets(requests[p].user) = {} )
            => /\ last' = Response("TransactionView.delete", HTTP_404_NOT_FOUND, NoBudget)
               /\ requests'[p] = Idle
               /\ transactions' = transactions
               /\ budgets' = budgets
      ]_vars

\* a delete has run to its end: it answered 204 with spent 0.00, the table of
\* transactions is empty again and the budget it adjusted is stored
C6_Witness ==
    /\ last.op = "TransactionView.delete"
    /\ last.status = HTTP_204_NO_CONTENT
    /\ last.body.spent_amount = 0
    /\ nextTxnId > 1
    /\ transactions = EmptyData
    /\ \E b \in DOMAIN budgets : budgets[b].spent_amount = 0

\* a delete has answered 404 "No budget found" and its transaction is stored
C6_Witness_NoBudget ==
    /\ last = Response("TransactionView.delete", HTTP_404_NOT_FOUND, NoBudget)
    /\ \E t \in DOMAIN transactions : CurrentBudgets(transactions[t].user) = {}

\* the sum of the amounts of the transactions with ids in S
RECURSIVE SumAmounts(_)
SumAmounts(S) ==
    IF S = {} THEN 0
    ELSE LET t == CHOOSE x \in S : TRUE
         IN  transactions[t].amount + SumAmounts(S \ {t})

\* the stored transactions of a user dated in (month, year)
TransactionsIn(user, month, year) ==
    {t \in DOMAIN transactions :
        /\ transactions[t].user = user
        /\ transactions[t].month = month
        /\ transactions[t].year = year}

\* budget b's spent_amount is the sum of its owner's transactions of its period
InSync(b) ==
    budgets[b].spent_amount =
        SumAmounts(TransactionsIn(budgets[b].user, budgets[b].month, budgets[b].year))

(* C7: in every reachable state every budget's spent_amount equals the sum  *)
(* of the amounts of its owner's transactions dated in its (month, year).   *)
C7_SpentEqualsSum ==
    \A b \in DOMAIN budgets : InSync(b)

\* all transaction writes of b's owner were processed with the clock in b's period
InPeriodOnly(b) ==
    \A c \in txnClocks[budgets[b].user] :
        /\ MonthOf(c) = budgets[b].month
        /\ YearOf(c) = budgets[b].year

\* b is the only budget of its owner and period
OnlyBudget(b) ==
    \A o \in DOMAIN budgets :
        ( /\ budgets[o].user = budgets[b].user
          /\ budgets[o].month = budgets[b].month
          /\ budgets[o].year = budgets[b].year ) => o = b

(* C8: a budget created while its owner had no transaction dated in its     *)
(* period P, never edited or deleted, whose owner's transaction creates,    *)
(* updates and deletes were all processed while the wall clock was in P,    *)
(* has spent_amount equal to the sum of the owner's transactions dated in P.*)
C8_RestrictedSync ==
    \A b \in DOMAIN budgets \cap pristine : InPeriodOnly(b) => InSync(b)

\* C8 step by step, for a budget that is the only one of its owner and period
\* when the request arrives: a budget enters pristine in sync, and every
\* request that leaves it within the restriction leaves it in sync
C8_RestrictedSync_OneBudget ==
    [][\A b \in DOMAIN budgets' \cap pristine' :
          /\ b \notin DOMAIN budgets => InSync(b)'
          /\ ( /\ b \in DOMAIN budgets \cap pristine
               /\ InSync(b)
               /\ OnlyBudget(b)
               /\ InPeriodOnly(b)' ) => InSync(b)'
      ]_vars

\* the example of C8 after its second step: the one transaction of the period
\* was updated to 200.00 under a budget of 500.00, answered spent 200.00,
\* remaining 300.00
C8_Example_Update ==
    /\ last.op = "TransactionView.put"
    /\ last.status = HTTP_200_OK
    /\ last.body = [spent_amount |-> 200000, remaining_budget |-> 300000]
    /\ \E b \in DOMAIN budgets \cap pristine :
          /\ budgets[b].amount = 500000
          /\ budgets[b].spent_amount = 200000
          /\ InSync(b)

\* the example of C8 after its last step: the transaction is deleted, answered
\* spent 0.00, remaining 500.00
C8_Example_Delete ==
    /\ last.op = "TransactionView.delete"
    /\ last.status = HTTP_204_NO_CONTENT
    /\ last.body = [spent_amount |-> 0, remaining_budget |-> 500000]
    /\ transactions = EmptyData
    /\ \E b \in DOMAIN budgets \cap pristine : budgets[b].spent_amount = 0

(* C9: a budget create for a (user, month, year) for which the user already *)
(* has a budget answers 400 "Budget already exists", whatever the amount,   *)
(* and leaves the budget table unchanged.                                   *)
C9_DuplicateCreateRejected ==
    [][last'.op = "BudgetView.post" =>
       \A user \in Users, data \in BudgetPostData :
        ( /\ \E b \in DOMAIN budgets :
                /\ budgets[b].user = user
                /\ budgets[b].month = data.month
                /\ budgets[b].year = data.year
          /\ BudgetView_post(user, data) )
        => /\ last'.status = HTTP_400_BAD_REQUEST
           /\ last'.body = BudgetExists
           /\ budgets' = budgets
      ]_vars

\* a create was answered 400 "Budget already exists" and a budget is stored
C9_Witness ==
    /\ last.op = "BudgetView.post"
    /\ last.status = HTTP_400_BAD_REQUEST
    /\ last.body = BudgetExists
    /\ budgets # EmptyData

(* C10: in every reachable state there is at most one budget for each       *)
(* (user, month, year).                                                     *)
C10_OneBudgetPerPeriod ==
    \A b \in DOMAIN budgets : OnlyBudget(b)

\* C10 as long as no budget was partially updated: BudgetView.post alone
\* keeps the periods of a user distinct
C10_OneBudgetPerPeriod_Create ==
    [][C10_OneBudgetPerPeriod /\ last'.op # "BudgetView.put" => C10_OneBudgetPerPeriod']_vars

(* ---------------- C11 .. C20 ---------------- *)
\* the answer to a request for a transaction that is not there
NotFoundAnswer(op) == [op |-> op, status |-> HTTP_404_NOT_FOUND, body |-> TxnNotFound]

\* the transaction id and every budget's spent_amount are as they were
C11_Untouched(id) ==
    /\ id \in DOMAIN transactions'
    /\ transactions'[id] = transactions[id]
    /\ DOMAIN budgets' = DOMAIN budgets
    /\ \A b \in DOMAIN budgets : budgets'[b].spent_amount = budgets[b].spent_amount

(* C11: a read, update or delete by a user of a transaction id owned by     *)
(* another user answers 404 "Transaction not found.", exactly the answer    *)
(* for an id that is not stored, and leaves that transaction and every      *)
(* budget's spent_amount unchanged.                                         *)
C11_CrossUserNotFound ==
    [][last'.op \in {"TransactionView.get", "TransactionView.put",
                     "TransactionView.delete"} =>
       \A user \in Users, id \in TxnIds :
         /\ (id \in DOMAIN transactions /\ transactions[id].user # user) =>
              /\ TransactionView_get(user, id) =>
                    last' = NotFoundAnswer("TransactionView.get") /\ C11_Untouched(id)
              /\ TransactionView_delete(user, id) =>
                    last' = NotFoundAnswer("TransactionView.delete") /\ C11_Untouched(id)
              /\ \A data \in ReadTxnData : TransactionView_put(user, id, data) =>
                    last' = NotFoundAnswer("TransactionView.put") /\ C11_Untouched(id)
         /\ id \notin DOMAIN transactions =>
              /\ TransactionView_get(user, id) =>
                    last' = NotFoundAnswer("TransactionView.get")
              /\ TransactionView_delete(user, id) =>
                    last' = NotFoundAnswer("TransactionView.delete")
              /\ \A data \in ReadTxnData : TransactionView_put(user, id, data) =>
                    last' = NotFoundAnswer("TransactionView.put")
      ]_vars

\* every transaction id is stored, so the id that a delete has just answered
\* 404 "Transaction not found." for is a stored one, owned by another user
C11_Witness ==
    /\ last.op = "TransactionView.delete"
    /\ last.status = HTTP_404_NOT_FOUND
    /\ last.body = TxnNotFound
    /\ DOMAIN transactions = TxnIds
    /\ DOMAIN budgets # {}

\* the same for a read of one id
C11_Witness_Read ==
    /\ last.op = "TransactionView.get"
    /\ last.status = HTTP_404_NOT_FOUND
    /\ DOMAIN transactions = TxnIds

(* C12: two transaction creates of one user in one period can lose an       *)
(* update. The save of a create writes the spent_amount it loaded plus its  *)
(* own amount, whatever another request has stored in between; so when two  *)
(* creates interleave their read, addition and save, both transactions are  *)
(* stored while spent_amount has grown by one of the two amounts only       *)
(* (C12_Witness).                                                           *)
C12_SaveWritesLoadedPlusAmount ==
    [][\A p \in Workers :
         ( /\ requests[p].op = "post"
           /\ requests[p].step = "save_budget"
           /\ requests'[p] # requests[p] )
         => /\ requests[p].budget_id \in DOMAIN budgets'
            /\ budgets'[requests[p].budget_id].spent_amount =
                  requests[p].loaded.spent_amount + requests[p].transaction.amount
      ]_vars

\* the lost update: the only budget ever created was there, untouched, before
\* both transactions of its owner and period were created in that period;
\* both creates have answered, and spent_amount is one of the two amounts,
\* not their sum
C12_Witness ==
    /\ \A p \in Workers : requests[p] = Idle
    /\ clock = 0
    /\ nextBudgetId = 2
    /\ last.op = "TransactionView.post"
    /\ last.status = HTTP_201_CREATED
    /\ \E b \in pristine \cap DOMAIN budgets :
         \E t1, t2 \in DOMAIN transactions :
            /\ t1 # t2
            /\ \A t \in {t1, t2} :
                  /\ transactions[t].user = budgets[b].user
                  /\ transactions[t].month = budgets[b].month
                  /\ transactions[t].year = budgets[b].year
            /\ budgets[b].spent_amount \in
                  {transactions[t1].amount, transactions[t2].amount}
            /\ budgets[b].spent_amount #
                  transactions[t1].amount + transactions[t2].amount

\* the budgets of user for the period p
BudgetsFor(user, p) ==
    {b \in DOMAIN budgets :
        /\ budgets[b].user = user
        /\ budgets[b].month = p.month
        /\ budgets[b].year = p.year}

\* the query parameters that spell the period p
Spelled(p) == [month |-> ToString(p.month), year |-> ToString(p.year)]

\* the summary answered is that of the stored budgets of user for p
C13_Answer(user, p) ==
    /\ transactions' = transactions
    /\ budgets' = budgets
    /\ last'.status = HTTP_200_OK
    /\ IF BudgetsFor(user, p) = {}
       THEN /\ last'.body.budget_amount = 0
            /\ last'.body.spent_amount = 0
            /\ last'.body.remaining_amount = 0
       ELSE \A b \in BudgetsFor(user, p) :
            /\ last'.body.budget_amount = budgets[b].amount
            /\ last'.body.spent_amount = budgets[b].spent_amount
            /\ last'.body.remaining_amount = budgets[b].amount - budgets[b].spent_amount

(* C13: the budget summary of a user for an integer month and year answers  *)
(* 200 with budget_amount, spent_amount and remaining_amount = amount -     *)
(* spent_amount of the user's budget for that period, or with three zeros   *)
(* when the user has none, never an error; and it changes no stored state.  *)
C13_Summary ==
    [][last'.op = "BudgetSummaryView.get" =>
       \A user \in Users, p \in Periods :
          BudgetSummaryView_get(user, Spelled(p)) => C13_Answer(user, p)
      ]_vars

\* C13 where the period has at most one budget of the user
C13_Summary_OneBudget ==
    [][last'.op = "BudgetSummaryView.get" =>
       \A user \in Users, p \in Periods :
          ( /\ Cardinality(BudgetsFor(user, p)) <= 1
            /\ BudgetSummaryView_get(user, Spelled(p)) )
          => C13_Answer(user, p)
      ]_vars

\* C13 with no query parameters: the period is today's
C13_Summary_Today ==
    [][last'.op = "BudgetSummaryView.get" =>
       \A user \in Users :
          ( /\ Cardinality(CurrentBudgets(user)) <= 1
            /\ BudgetSummaryView_get(user, EmptyData) )
          => C13_Answer(user, [month |-> MonthOf(clock), year |-> YearOf(clock)])
      ]_vars

\* a summary that reports a budget with something spent, and one with zeros
C13_Example_Budget ==
    /\ last.op = "BudgetSummaryView.get"
    /\ last.status = HTTP_200_OK
    /\ last.body.spent_amount > 0
    /\ last.body.remaining_amount = last.body.budget_amount - last.body.spent_amount

C13_Example_Zeros ==
    /\ last.op = "BudgetSummaryView.get"
    /\ last.status = HTTP_200_OK
    /\ last.body.budget_amount = 0
    /\ DOMAIN budgets # {}

\* the stored transactions of a user, and those of one category
OwnTransactions(user) == {t \in DOMAIN transactions : transactions[t].user = user}
OwnInCategory(user, c) == {t \in OwnTransactions(user) : transactions[t].category = c}

\* the amounts of the entries of a category list, summed
RECURSIVE EntryTotal(_)
EntryTotal(entries) ==
    IF entries = {} THEN 0
    ELSE LET e == CHOOSE x \in entries : TRUE
         IN  e.amount + EntryTotal(entries \ {e})

(* C14: spending by category of a user with at least one transaction has    *)
(* exactly one entry per distinct category of the user's transactions; the  *)
(* total of an entry is the sum of the user's amounts in that category; the *)
(* totals add up to the sum of all the user's amounts; transactions of      *)
(* other users contribute nothing.                                          *)
C14_SpendingByCategory ==
    [][last'.op = "SpendingByCategoryView.get" =>
       \A user \in Users :
          ( /\ OwnTransactions(user) # {}
            /\ SpendingByCategoryView_get(user) )
          => LET entries == last'.body.list
                 categories == {transactions[t].category : t \in OwnTransactions(user)}
             IN  /\ last'.status = HTTP_200_OK
                 /\ {e.category : e \in entries} = categories
                 /\ Cardinality(entries) = Cardinality(categories)
                 /\ \A e \in entries :
                       e.amount = SumAmounts(OwnInCategory(user, e.category))
                 /\ EntryTotal(entries) = SumAmounts(OwnTransactions(user))
                 /\ transactions' = transactions
      ]_vars

\* one entry that adds two transactions of one category
C14_Witness ==
    /\ last.op = "SpendingByCategoryView.get"
    /\ "list" \in DOMAIN last.body
    /\ \E e \in last.body.list : \E t1, t2 \in DOMAIN transactions :
          /\ t1 # t2
          /\ transactions[t1].user = transactions[t2].user
          /\ transactions[t1].category = e.category
          /\ transactions[t2].category = e.category
          /\ e.amount = transactions[t1].amount + transactions[t2].amount

\* two entries, one per category
C14_Witness_TwoCategories ==
    /\ last.op = "SpendingByCategoryView.get"
    /\ "list" \in DOMAIN last.body
    /\ Cardinality(last.body.list) = 2

\* one entry, while another user has a transaction of the same category that
\* is not counted
C14_Witness_OtherUser ==
    /\ last.op = "SpendingByCategoryView.get"
    /\ "list" \in DOMAIN last.body
    /\ \E e \in last.body.list : \E t1, t2 \in DOMAIN transactions :
          /\ transactions[t1].user # transactions[t2].user
          /\ transactions[t1].category = e.category
          /\ transactions[t2].category = e.category
          /\ e.amount = transactions[t1].amount

\* the months in which a user has a transaction
OwnMonths(user) ==
    {[month |-> transactions[t].month, year |-> transactions[t].year] :
        t \in OwnTransactions(user)}

\* "YYYY-MM" of a month
Label(p) ==
    ToString(p.year) \o "-" \o (IF p.month < 10 THEN "0" ELSE "") \o ToString(p.month)

\* p is an earlier month than q
Earlier(p, q) == p.year < q.year \/ (p.year = q.year /\ p.month < q.month)

(* C15: total expenses over time of a user has exactly one entry for each   *)
(* (year, month) in which the user has a transaction, with or without a     *)
(* budget for that month, in strictly increasing chronological order, and   *)
(* the total of an entry is the sum of the user's amounts dated in it.      *)
C15_ExpensesOverTime ==
    [][last'.op = "TotalExpensesOverTimeAPIView.get" =>
       \A user \in Users :
          TotalExpensesOverTimeAPIView_get(user) =>
             LET entries == last'.body.list
             IN  /\ last'.status = HTTP_200_OK
                 /\ Len(entries) = Cardinality(OwnMonths(user))
                 /\ \A p \in OwnMonths(user) :
                       \E i \in 1..Len(entries) :
                          /\ entries[i].month = Label(p)
                          /\ entries[i].total_spent =
                                SumAmounts(TransactionsIn(user, p.month, p.year))
                 /\ \A i, j \in 1..Len(entries) :
                       i < j => \E p, q \in OwnMonths(user) :
                                   /\ entries[i].month = Label(p)
                                   /\ entries[j].month = Label(q)
                                   /\ Earlier(p, q)
                 /\ transactions' = transactions
                 /\ budgets' = budgets
      ]_vars

\* two months are reported, the earlier first, and no budget is stored
C15_Witness ==
    /\ last.op = "TotalExpensesOverTimeAPIView.get"
    /\ Len(last.body.list) = 2
    /\ last.body.list[1].month = Label([month |-> MonthOf(0), year |-> YearOf(0)])
    /\ last.body.list[2].month = Label([month |-> MonthOf(1), year |-> YearOf(1)])
    /\ DOMAIN budgets = {}

\* one month is reported with the sum of two transactions
C15_Witness_Sum ==
    /\ last.op = "TotalExpensesOverTimeAPIView.get"
    /\ Len(last.body.list) = 1
    /\ \E t1, t2 \in DOMAIN transactions :
          /\ t1 # t2
          /\ last.body.list[1].total_spent =
                transactions[t1].amount + transactions[t2].amount

\* the budgets whose spent_amount this step changes (or which it removes)
SpentChanged ==
    {b \in DOMAIN budgets :
        b \notin DOMAIN budgets' \/ budgets'[b].spent_amount # budgets[b].spent_amount}

\* budget b is a budget of user for the wall-clock month and year
IsCurrentBudgetOf(b, user) ==
    /\ budgets[b].user = user
    /\ budgets[b].month = MonthOf(clock)
    /\ budgets[b].year = YearOf(clock)

(* C16: a transaction create, update or delete changes the spent_amount of  *)
(* at most one budget, and only of a budget of the caller for the           *)
(* wall-clock (month, year) of the request; every budget of another period  *)
(* or of another user keeps its spent_amount, also when the transaction is  *)
(* dated in another period than the wall clock.                             *)
C16_OnlyCurrentBudget ==
    [][last'.op \in {"TransactionView.post", "TransactionView.put",
                     "TransactionView.delete"} =>
       /\ DOMAIN budgets' = DOMAIN budgets
       /\ Cardinality(SpentChanged) <= 1
       /\ SpentChanged # {} =>
            \A user \in Users :
               /\ \A data \in TxnData :
                     TransactionView_post(user, data) =>
                        \A b \in SpentChanged : IsCurrentBudgetOf(b, user)
               /\ \A id \in TxnIds, data \in TxnData :
                     TransactionView_put(user, id, data) =>
                        \A b \in SpentChanged : IsCurrentBudgetOf(b, user)
               /\ \A id \in TxnIds :
                     TransactionView_delete(user, id) =>
                        \A b \in SpentChanged : IsCurrentBudgetOf(b, user)
      ]_vars

\* a transaction created and charged in the first month was deleted in the
\* next: the budget of the first month keeps what was charged, the budget of
\* the wall-clock month went below zero
C16_Witness ==
    /\ last.op = "TransactionView.delete"
    /\ last.status = HTTP_204_NO_CONTENT
    /\ clock = 1
    /\ \E b1, b2 \in DOMAIN budgets :
          /\ budgets[b1].user = budgets[b2].user
          /\ budgets[b1].month = MonthOf(0) /\ budgets[b1].year = YearOf(0)
          /\ budgets[b2].month = MonthOf(1) /\ budgets[b2].year = YearOf(1)
          /\ budgets[b1].spent_amount > 0
          /\ budgets[b2].spent_amount = 0 - budgets[b1].spent_amount

\* the same for an update: the budget of the wall-clock month is charged the
\* difference while the only transaction ever created is dated in the month
\* before
C16_Witness_Update ==
    /\ last.op = "TransactionView.put"
    /\ last.status = HTTP_200_OK
    /\ clock = 1
    /\ nextTxnId = 2
    /\ \E b \in DOMAIN budgets, t \in DOMAIN transactions :
          /\ budgets[b].user = transactions[t].user
          /\ budgets[b].month = MonthOf(1) /\ budgets[b].year = YearOf(1)
          /\ transactions[t].month = MonthOf(0) /\ transactions[t].year = YearOf(0)
          /\ budgets[b].spent_amount # 0

\* the requests of TransactionView that write, and the documented outcomes
TransactionWrites ==
    {"TransactionView.post", "TransactionView.put", "TransactionView.delete"}
DocumentedOutcomes ==
    {HTTP_200_OK, HTTP_201_CREATED, HTTP_204_NO_CONTENT,
     HTTP_400_BAD_REQUEST, HTTP_404_NOT_FOUND}

(* C17: in every reachable state, also when the budget lookup by (user,     *)
(* current month, current year) matches more than one row, a transaction    *)
(* create, update or delete ends in success, 400 or 404, never in an        *)
(* unhandled error.                                                         *)
C17_DocumentedOutcome ==
    last.op \in TransactionWrites => last.status \in DocumentedOutcomes

\* C17 for the requests that arrive while no user has two budgets for one
\* period
C17_DocumentedOutcome_OneBudget ==
    [][( /\ \A b \in DOMAIN budgets : OnlyBudget(b)
         /\ quota' < quota
         /\ last'.op \in TransactionWrites )
       => last'.status \in DocumentedOutcomes]_vars

\* a create has ended in an unhandled error and its row is stored
C17_Example_Stored ==
    /\ last.op = "TransactionView.post"
    /\ last.status = HTTP_500_INTERNAL_SERVER_ERROR
    /\ nextTxnId = 2
    /\ DOMAIN transactions = {1}

(* C18: BudgetView.delete of a budget owned by the caller removes exactly   *)
(* that budget and leaves every transaction and every other budget as it    *)
(* was; for an id that is absent or owned by another user it answers 404    *)
(* "Budget not found." and changes nothing.                                 *)
C18_BudgetDelete ==
    [][last'.op = "BudgetView.delete" =>
       \A user \in Users, id \in BudgetIds :
          BudgetView_delete(user, id) =>
             /\ transactions' = transactions
             /\ IF id \in DOMAIN budgets /\ budgets[id].user = user
                THEN /\ last'.status = HTTP_204_NO_CONTENT
                     /\ DOMAIN budgets' = DOMAIN budgets \ {id}
                     /\ \A b \in DOMAIN budgets' : budgets'[b] = budgets[b]
                ELSE /\ last'.status = HTTP_404_NOT_FOUND
                     /\ last'.body = BudgetNotFound
                     /\ budgets' = budgets
      ]_vars

\* one of the two budgets ever created was deleted: the other is still
\* there and a transaction is still stored
C18_Witness ==
    /\ last.op = "BudgetView.delete"
    /\ last.status = HTTP_204_NO_CONTENT
    /\ nextBudgetId = 3
    /\ Cardinality(DOMAIN budgets) = 1
    /\ DOMAIN transactions # {}

\* every budget id is stored, so the id that a delete has just answered 404
\* for is a stored one, owned by another user
C18_Witness_OtherUser ==
    /\ last.op = "BudgetView.delete"
    /\ last.status = HTTP_404_NOT_FOUND
    /\ DOMAIN budgets = BudgetIds

(* C19: budget ownership is stable: a stored budget keeps its owning user   *)
(* through every request, so each budget is owned by the user who created   *)
(* it; in particular BudgetView.put never changes the owning user.          *)
C19_OwnerStable ==
    [][\A b \in DOMAIN budgets \cap DOMAIN budgets' :
          budgets'[b].user = budgets[b].user]_vars

\* the budgets this step changes or removes
Touched ==
    {b \in DOMAIN budgets : b \notin DOMAIN budgets' \/ budgets'[b] # budgets[b]}

\* C19 without the change of owner: a request of a user changes and removes
\* only budgets that this user owns when the request arrives, and a budget
\* it creates is owned by this user
C19_Isolation ==
    [][Touched # {} \/ DOMAIN budgets' # DOMAIN budgets =>
       \A user \in Users :
          LET Own == /\ \A b \in Touched : budgets[b].user = user
                     /\ \A b \in DOMAIN budgets' \ DOMAIN budgets :
                           budgets'[b].user = user
          IN  /\ last'.op = "TransactionView.post" =>
                    \A data \in TxnData : TransactionView_post(user, data) => Own
              /\ last'.op = "TransactionView.put" =>
                    \A id \in TxnIds, data \in TxnData :
                       TransactionView_put(user, id, data) => Own
              /\ last'.op = "TransactionView.delete" =>
                    \A id \in TxnIds : TransactionView_delete(user, id) => Own
              /\ last'.op = "BudgetView.post" =>
                    \A data \in BudgetPostData : BudgetView_post(user, data) => Own
              /\ last'.op = "BudgetView.put" =>
                    \A id \in BudgetIds, data \in BudgetPutData :
                       BudgetView_put(user, id, data) => Own
              /\ last'.op = "BudgetView.delete" =>
                    \A id \in BudgetIds : BudgetView_delete(user, id) => Own
      ]_vars

\* a budget update has answered 200 and a budget that carries a charge is
\* owned by a user none of whose transaction requests was ever processed:
\* the budget was charged under another owner
C19_Example_Reowned ==
    /\ last.op = "BudgetView.put"
    /\ last.status = HTTP_200_OK
    /\ \E b \in DOMAIN budgets :
          /\ budgets[b].spent_amount # 0
          /\ txnClocks[budgets[b].user] = {}

\* worker p, in the middle of a delete, takes its step budget.save()
DeleteSaves(p) ==
    /\ requests[p].op = "delete"
    /\ requests[p].step = "save_budget"
    /\ requests'[p] # requests[p]

\* the budget row that worker p has loaded is the row as another delete of
\* the same transaction saved it: the amount is already subtracted from it
AlreadySubtracted(p) ==
    \E q \in Workers \ {p} :
        /\ requests[q].op = "delete"
        /\ requests[q].id = requests[p].id
        /\ requests[q].saved
        /\ requests[q].budget_id = requests[p].budget_id
        /\ requests[p].loaded = requests[q].budget

(* C20: across all interleavings of delete requests for one transaction,    *)
(* the transaction's amount is subtracted from a budget's spent_amount at   *)
(* most once: no delete saves a budget row from which another delete of     *)
(* the same transaction has already subtracted the amount.                  *)
C20_SubtractedAtMostOnce ==
    [][\A p \in Workers : DeleteSaves(p) => ~AlreadySubtracted(p)]_vars

\* two deletes of one transaction have both saved: the stored spent_amount
\* is what the first loaded less twice the amount
C20_Example_Twice ==
    \E p, q \in Workers :
        /\ p # q
        /\ requests[p].op = "delete" /\ requests[q].op = "delete"
        /\ requests[p].id = requests[q].id
        /\ requests[p].saved /\ requests[q].saved
        /\ requests[p].budget_id \in DOMAIN budgets
        /\ budgets[requests[p].budget_id].spent_amount =
              requests[q].loaded.spent_amount - 2 * requests[q].transaction.amount

\* both deletes have answered 204: the only transaction ever created is gone
\* and the only budget ever created, which was there before it, is at minus
\* its amount
C20_Example_Answered ==
    /\ \A p \in Workers : requests[p] = Idle
    /\ last.op = "TransactionView.delete"
    /\ last.status = HTTP_204_NO_CONTENT
    /\ quota = 0
    /\ clock = 0
    /\ nextTxnId = 2 /\ DOMAIN transactions = {}
    /\ nextBudgetId = 2
    /\ \E b \in pristine \cap DOMAIN budgets : budgets[b].spent_amount < 0

(* ---------------- C21 ---------------- *)
\* the payloads of BudgetView.put that carry a spent_amount key
WithSpentAmount == {data \in BudgetPutData : "spent_amount" \in DOMAIN data}

(* C21: BudgetView.put never changes a budget's spent_amount: whatever the  *)
(* request supplies (amount, month, year, or a spent_amount key), every     *)
(* stored budget has the spent_amount after the request that it had before, *)
(* so a budget moved to another (month, year) keeps the total it            *)
(* accumulated in its former period.                                        *)
C21_PutKeepsSpent ==
    [][last'.op = "BudgetView.put" =>
       /\ DOMAIN budgets' = DOMAIN budgets
       /\ \A b \in DOMAIN budgets : budgets'[b].spent_amount = budgets[b].spent_amount
      ]_vars

\* C21 for a request of the owner that carries a spent_amount key: it is
\* answered 200 and the stored spent_amount is the old one, not the supplied
C21_SpentAmountKeyIgnored ==
    [][last'.op = "BudgetView.put" =>
       \A id \in DOMAIN budgets, data \in WithSpentAmount :
          BudgetView_put(budgets[id].user, id, data)
          => /\ last'.status = HTTP_200_OK
             /\ budgets'[id].spent_amount = budgets[id].spent_amount
             /\ budgets'[id].spent_amount # data.spent_amount
      ]_vars

\* a budget update has answered 200 and a budget of the month after the
\* first carries a charge, while the wall clock has never left the first
\* month: the budget was charged there and moved with its total
C21_Witness ==
    /\ last.op = "BudgetView.put"
    /\ last.status = HTTP_200_OK
    /\ clock = 0
    /\ \E b \in DOMAIN budgets :
          /\ budgets[b].month = MonthOf(1)
          /\ budgets[b].year = YearOf(1)
          /\ budgets[b].spent_amount > 0

====
